---- MODULE Spec2Model ----
(***************************************************************************)
(* Model of run.py: the Iceberg metadata insights Streamlit script.        *)
(*                                                                         *)
(* A pandas DataFrame is a record [cols, rows]: cols is the set of column  *)
(* names, rows the sequence of rows, each row a function from cols to the  *)
(* cell values.  A timestamp is a number of seconds.  A quotient such as   *)
(* time_diff / 3600 is kept exact as a fraction [num, den].                *)
(*                                                                         *)
(* A function call either returns a value or raises; a raise is the record *)
(* Raised(exception, key).                                                 *)
(***************************************************************************)
EXTENDS Integers, Sequences, FiniteSets, TLC

VARIABLES
    pc,              \* position of the script run (or "harness" for a direct call)
    input_option,    \* st.sidebar.radio value
    uploaded_file,   \* TRUE iff the file uploader holds a file
    analyze_button,  \* st.sidebar.button value
    metadata_path,   \* "None", "" or a path
    bound,           \* names bound in the script's namespace (locals())
    temp_exists,     \* this run's temporary file exists on disk
    orphans,         \* temporary files left on disk by earlier runs
    snapshots_df,
    manifest_df,
    schema_df,
    operations_df,
    intervals_df,
    perm_df,            \* a permutation of snapshots_df (direct calls only)
    perm_intervals_df,  \* calculate_snapshot_intervals(perm_df)
    raised,          \* the exception that left the function / reached the outer handler
    called,          \* the direct calls made so far
    shown,           \* st.metric output: label -> value
    messages         \* st.info / st.error output

vars == <<pc, input_option, uploaded_file, analyze_button, metadata_path, bound,
          temp_exists, orphans, snapshots_df, manifest_df, schema_df, operations_df,
          intervals_df, perm_df, perm_intervals_df, raised, called, shown, messages>>

----------------------------------------------------------------------------
(* Bounds of the model *)

MaxSnapshots == 3      \* rows of a snapshot table given to calculate_snapshot_intervals
MaxManifests == 2      \* rows of a manifest table given to extract_operation_metrics
MaxSchemaManifests == 1  \* rows of a manifest table whose columns may be missing
MaxRunSnapshots == 2   \* rows iceberg_snapshots returns in a script run
MaxRunManifests == 1   \* rows iceberg_metadata returns in a script run
MaxOrphans == 1        \* temporary files left behind that the model keeps count of

(* Value domains *)
Times == {0, 3600, 5400}
SeqNumbers == {1, 2}
ManifestSeqNumbers == {1, 2, 3}
Statuses == {"ADDED", "DELETED", "EXISTING"}
RecordCounts == {0, 2}

----------------------------------------------------------------------------
(* DataFrames *)

EmptyDF == [cols |-> {}, rows |-> <<>>]

Empty(df) == df.rows = <<>> \/ df.cols = {}

DataFrameOf(cols, dicts) ==
    IF dicts = <<>> THEN EmptyDF ELSE [cols |-> cols, rows |-> dicts]

NoException == [exc |-> "none", key |-> ""]
Raised(e, k) == [exc |-> e, key |-> k]
Returned(df) == [exc |-> "none", key |-> "", df |-> df]
IsRaise(r) == r.exc # "none"

Restrict(row, cols) == [c \in cols |-> row[c]]

Table(cols, fullRows) ==
    [cols |-> cols, rows |-> [i \in 1..Len(fullRows) |-> Restrict(fullRows[i], cols)]]

RECURSIVE SumSeq(_)
SumSeq(s) == IF s = <<>> THEN 0 ELSE Head(s) + SumSeq(Tail(s))

Column(rows, c) == [i \in 1..Len(rows) |-> rows[i][c]]

PermsOf(rows) ==
    { [i \in 1..Len(rows) |-> rows[p[i]]] : p \in Permutations(1..Len(rows)) }

----------------------------------------------------------------------------
(* calculate_snapshot_intervals *)

(* sort_values('timestamp') with the default kind='quicksort', which is not *)
(* a stable sort: rows of equal timestamp come out in an unspecified order. *)
(* reset_index(drop=True) renumbers the rows 0..n-1.                        *)
SortValuesUnsorted(df, by) == {df.rows}
SortValuesDescending(df, by) ==
    { r \in PermsOf(df.rows) : \A i \in 1..(Len(r) - 1) : r[i][by] >= r[i + 1][by] }
SortValues(df, by) ==
    { r \in PermsOf(df.rows) : \A i \in 1..(Len(r) - 1) : r[i][by] <= r[i + 1][by] }

(* range(1, len(sorted_df)), as positions of curr in a 1-based sequence *)
LoopRangeShort(n) == [k \in 1..(n - 2) |-> k + 1]
LoopRange(n) == [k \in 1..(n - 1) |-> k + 1]

IntervalColumns ==
    {"previous_snapshot", "current_snapshot", "previous_time", "current_time",
     "interval_seconds", "interval_hours", "interval_days"}

IntervalRow(prev, curr) ==
    LET time_diff == curr.timestamp - prev.timestamp
    IN  [previous_snapshot |-> prev.snapshot_id,
         current_snapshot  |-> curr.snapshot_id,
         previous_time     |-> prev.timestamp,
         current_time      |-> curr.timestamp,
         interval_seconds  |-> time_diff,
         interval_hours    |-> [num |-> time_diff, den |-> 3600],
         interval_days     |-> [num |-> time_diff, den |-> 3600 * 24]]

(* The body of the function after the sort; sorted_rows is the sort's outcome *)
IntervalsOfSorted(df, sorted_rows) ==
    LET range == LoopRange(Len(sorted_rows))
    IN  IF range # <<>> /\ "snapshot_id" \notin df.cols
        THEN Raised("KeyError", "snapshot_id")
        ELSE Returned(DataFrameOf(IntervalColumns,
                 [k \in 1..Len(range) |->
                     IntervalRow(sorted_rows[range[k] - 1], sorted_rows[range[k]])]))

(* The set of results the call can produce, one per outcome of the sort *)
calculate_snapshot_intervals(df) ==
    IF "timestamp" \notin df.cols \/ Len(df.rows) <= 1
    THEN {Returned(EmptyDF)}
    ELSE { IntervalsOfSorted(df, s) : s \in SortValues(df, "timestamp") }

----------------------------------------------------------------------------
(* Input tables *)

SnapshotColumns == {"snapshot_id", "sequence_number", "timestamp"}

DistinctIds(s) == \A i, j \in DOMAIN s : i # j => s[i].snapshot_id # s[j].snapshot_id

(* Snapshot tables of up to MaxSnapshots rows: unique snapshot_id, the       *)
(* sequence_number assigned with the id, any timestamps in any order         *)
IntervalSnapshotRows ==
    UNION { { s \in [1..n -> { [snapshot_id |-> i, sequence_number |-> i, timestamp |-> t] :
                                 i \in 1..MaxSnapshots, t \in Times }] : DistinctIds(s) }
            : n \in 0..MaxSnapshots }

----------------------------------------------------------------------------
(* extract_operation_metrics *)

OperationColumns ==
    {"snapshot_id", "timestamp", "sequence_number", "added_records",
     "deleted_records", "net_change", "manifest_count"}

(* manifest_df[manifest_df['manifest_sequence_number'] == seq_num] *)
SnapshotManifests(manifest, seq_num) ==
    SelectSeq(manifest.rows, LAMBDA e : e.manifest_sequence_number = seq_num)

(* snapshot_manifests[snapshot_manifests['status'] == status]['record_count'].sum() *)
StatusSumAnyStatus(snapshot_manifests, status) ==
    SumSeq(Column(snapshot_manifests, "record_count"))
StatusSum(snapshot_manifests, status) ==
    SumSeq(Column(SelectSeq(snapshot_manifests, LAMBDA e : e.status = status),
                  "record_count"))

(* len(snapshot_manifests) *)
ManifestCountAsRecordSum(snapshot_manifests) ==
    SumSeq(Column(snapshot_manifests, "record_count"))
ManifestCount(snapshot_manifests) == Len(snapshot_manifests)

(* if 'status' in snapshot_manifests.columns *)
HasStatusAndMatches(manifest, snapshot_manifests) ==
    "status" \in manifest.cols /\ snapshot_manifests # <<>>
HasStatus(manifest, snapshot_manifests) == "status" \in manifest.cols

OperationRow(snapshot, snapshot_manifests) ==
    LET adds    == StatusSum(snapshot_manifests, "ADDED")
        deletes == StatusSum(snapshot_manifests, "DELETED")
    IN  [snapshot_id     |-> snapshot.snapshot_id,
         timestamp       |-> IF "timestamp" \in DOMAIN snapshot
                             THEN snapshot.timestamp ELSE "NaT",
         sequence_number |-> snapshot.sequence_number,
         added_records   |-> adds,
         deleted_records |-> deletes,
         net_change      |-> adds - deletes,
         manifest_count  |-> ManifestCount(snapshot_manifests)]

(* The for loop over snapshots_df.iterrows(), from row i on *)
RECURSIVE ExtractLoop(_, _, _, _)
ExtractLoop(snapshots, manifest, i, operations) ==
    IF i > Len(snapshots.rows)
    THEN Returned(DataFrameOf(OperationColumns, operations))
    ELSE LET snapshot == snapshots.rows[i] IN
         IF "sequence_number" \notin DOMAIN snapshot
         THEN Raised("KeyError", "sequence_number")
         ELSE IF "manifest_sequence_number" \notin manifest.cols
         THEN Raised("KeyError", "manifest_sequence_number")
         ELSE LET snapshot_manifests ==
                      SnapshotManifests(manifest, snapshot.sequence_number)
              IN  IF HasStatus(manifest, snapshot_manifests)
                  THEN IF "record_count" \notin manifest.cols
                       THEN Raised("KeyError", "record_count")
                       ELSE IF "snapshot_id" \notin DOMAIN snapshot
                       THEN Raised("KeyError", "snapshot_id")
                       ELSE ExtractLoop(snapshots, manifest, i + 1,
                                Append(operations,
                                       OperationRow(snapshot, snapshot_manifests)))
                  ELSE ExtractLoop(snapshots, manifest, i + 1, operations)

extract_operation_metrics(snapshots, manifest) ==
    IF Empty(manifest) \/ Empty(snapshots)
    THEN Returned(EmptyDF)
    ELSE ExtractLoop(snapshots, manifest, 1, <<>>)

----------------------------------------------------------------------------
(* Input tables for extract_operation_metrics *)

ManifestColumns == {"manifest_sequence_number", "status", "record_count"}

ManifestEntries ==
    [manifest_sequence_number : ManifestSeqNumbers, status : Statuses,
     record_count : RecordCounts]

ManifestRows(maxLen) == UNION { [1..n -> ManifestEntries] : n \in 0..maxLen }

OperationSnapshotIds == {1, 2}

OperationSnapshotRows ==
    UNION { { s \in [1..n -> { [snapshot_id |-> i, sequence_number |-> q,
                                timestamp |-> 3600 * i] :
                                 i \in OperationSnapshotIds, q \in SeqNumbers }] :
              DistinctIds(s) }
            : n \in 0..Cardinality(OperationSnapshotIds) }

----------------------------------------------------------------------------
(* Direct calls of the two aggregation functions on given tables *)

RunIdle ==
    /\ input_option = "Local Path"
    /\ uploaded_file = FALSE
    /\ analyze_button = FALSE
    /\ metadata_path = "None"
    /\ temp_exists = FALSE
    /\ orphans = 0
    /\ schema_df = EmptyDF
    /\ shown = <<>>
    /\ messages = {}

HarnessInit(snapshotTables, manifestTables) ==
    /\ pc = "harness"
    /\ RunIdle
    /\ snapshots_df \in snapshotTables
    /\ manifest_df \in manifestTables
    /\ bound = {"snapshots_df", "manifest_df"}
    /\ operations_df = EmptyDF
    /\ intervals_df = EmptyDF
    /\ perm_df = EmptyDF
    /\ perm_intervals_df = EmptyDF
    /\ raised = NoException
    /\ called = {}

UnchangedRun ==
    UNCHANGED <<pc, input_option, uploaded_file, analyze_button, metadata_path,
                temp_exists, orphans, snapshots_df, manifest_df, schema_df, shown,
                messages>>

(* operations_df = extract_operation_metrics(snapshots_df, manifest_df) *)
CallExtract ==
    /\ pc = "harness"
    /\ "extract" \notin called
    /\ raised = NoException
    /\ LET r == extract_operation_metrics(snapshots_df, manifest_df)
       IN  IF IsRaise(r)
           THEN raised' = r /\ UNCHANGED <<operations_df, bound>>
           ELSE /\ operations_df' = r.df
                /\ bound' = bound \cup {"operations_df"}
                /\ UNCHANGED raised
    /\ called' = called \cup {"extract"}
    /\ UNCHANGED <<intervals_df, perm_df, perm_intervals_df>>
    /\ UnchangedRun

(* intervals_df = calculate_snapshot_intervals(snapshots_df) *)
CallIntervals ==
    /\ pc = "harness"
    /\ "intervals" \notin called
    /\ raised = NoException
    /\ \E r \in calculate_snapshot_intervals(snapshots_df) :
           IF IsRaise(r)
           THEN raised' = r /\ UNCHANGED <<intervals_df, bound>>
           ELSE /\ intervals_df' = r.df
                /\ bound' = bound \cup {"intervals_df"}
                /\ UNCHANGED raised
    /\ called' = called \cup {"intervals"}
    /\ UNCHANGED <<operations_df, perm_df, perm_intervals_df>>
    /\ UnchangedRun

(* The same call on the same rows in another order *)
CallIntervalsPermuted ==
    /\ pc = "harness"
    /\ "permuted" \notin called
    /\ raised = NoException
    /\ \E p \in PermsOf(snapshots_df.rows) :
         LET permuted == [snapshots_df EXCEPT !.rows = p]
         IN  /\ perm_df' = permuted
             /\ \E r \in calculate_snapshot_intervals(permuted) :
                  IF IsRaise(r)
                  THEN raised' = r /\ UNCHANGED <<perm_intervals_df, bound>>
                  ELSE /\ perm_intervals_df' = r.df
                       /\ bound' = bound \cup {"perm_intervals_df"}
                       /\ UNCHANGED raised
    /\ called' = called \cup {"permuted"}
    /\ UNCHANGED <<operations_df, intervals_df>>
    /\ UnchangedRun

(* Snapshot tables as the data model has them: timestamp may be absent *)
IntervalSnapshotTables ==
    { Table(c, r) : c \in {SnapshotColumns, SnapshotColumns \ {"timestamp"}},
                    r \in IntervalSnapshotRows }

OperationSnapshotTables ==
    { Table(c, r) : c \in {SnapshotColumns, SnapshotColumns \ {"timestamp"}},
                    r \in OperationSnapshotRows }

(* Manifest tables: the status column may be absent *)
ManifestTables ==
    { Table(c, r) : c \in {ManifestColumns, ManifestColumns \ {"status"}},
                    r \in ManifestRows(MaxManifests) }

(* Tables with any of the expected columns missing *)
AnySchemaSnapshotTables ==
    { Table(c, r) : c \in SUBSET SnapshotColumns, r \in OperationSnapshotRows }

AnySchemaManifestTables ==
    { Table(c, r) : c \in SUBSET ManifestColumns, r \in ManifestRows(MaxSchemaManifests) }

InitIntervals == HarnessInit(IntervalSnapshotTables, {EmptyDF})
NextIntervals == CallIntervals \/ CallIntervalsPermuted
SpecIntervals == InitIntervals /\ [][NextIntervals]_vars

InitExtract == HarnessInit(OperationSnapshotTables, ManifestTables)
NextExtract == CallExtract
SpecExtract == InitExtract /\ [][NextExtract]_vars

InitSchema == HarnessInit(AnySchemaSnapshotTables, AnySchemaManifestTables)
NextSchema == CallExtract \/ CallIntervals
SpecSchema == InitSchema /\ [][NextSchema]_vars

----------------------------------------------------------------------------
(* One run of the script *)

RECURSIVE Pow2(_)
Pow2(k) == IF k = 0 THEN 1 ELSE 2 * Pow2(k - 1)

NA == [na |-> TRUE, v |-> 0]
Num(n) == [na |-> FALSE, v |-> n]

(* The largest e >= lo with 5 * 2^e <= t (t >= 5) *)
RECURSIVE FloorLog2Fifth(_, _)
FloorLog2Fifth(t, lo) ==
    IF 5 * Pow2(lo + 1) <= t THEN FloorLog2Fifth(t, lo + 1) ELSE lo

(* The float64 nearest to t/20 (t odd, not a multiple of 5) lies above t/20:  *)
(* t/20 = (t/5) / 4, and t/5 = m * 2^e with 1 <= m < 2 keeps 52 fraction bits *)
(* of m; the part cut off is ((t * 2^(52 - e)) mod 5) / 5 of the last bit,    *)
(* rounded up when it exceeds one half.  2^k mod 5 has period 4.              *)
FloatAboveTwentieth(t) ==
    LET e == IF t >= 5 THEN FloorLog2Fifth(t, 0)
             ELSE IF t >= 3 THEN -1 ELSE IF t = 2 THEN -2 ELSE -3
        k == (52 - e) % 4
        cut == ((t % 5) * (Pow2(k) % 5)) % 5
    IN  cut >= 3

(* f"{x:.1f}" of the float x = num / den (num >= 0, den > 0), as a number of  *)
(* tenths.  The format rounds the float's exact value, half to even.  num/den *)
(* lies strictly between two tenths' midpoints unless it is a midpoint t/20,  *)
(* t odd; a midpoint that is a multiple of 1/4 is an exact float, any other   *)
(* is rounded by the division to a float just above or just below it.         *)
Format1(num, den) ==
    LET q == (10 * num) \div den
        r == (10 * num) % den
        t == 2 * q + 1
    IN  IF 2 * r < den THEN q
        ELSE IF 2 * r > den THEN q + 1
        ELSE IF t % 5 = 0 THEN (IF q % 2 = 0 THEN q ELSE q + 1)
        ELSE IF FloatAboveTwentieth(t) THEN q + 1 ELSE q

RECURSIVE MinSeq(_)
MinSeq(s) ==
    IF Len(s) = 1 THEN s[1]
    ELSE LET m == MinSeq(Tail(s)) IN IF s[1] <= m THEN s[1] ELSE m

RECURSIVE MaxSeq(_)
MaxSeq(s) ==
    IF Len(s) = 1 THEN s[1]
    ELSE LET m == MaxSeq(Tail(s)) IN IF s[1] >= m THEN s[1] ELSE m

Truthy(path) == path # "None" /\ path # ""

ScriptInit ==
    /\ pc = "sidebar"
    /\ input_option = "Upload Metadata File"
    /\ uploaded_file = FALSE
    /\ analyze_button = FALSE
    /\ metadata_path = "None"
    /\ bound = {}
    /\ temp_exists = FALSE
    /\ orphans = 0
    /\ snapshots_df = EmptyDF
    /\ manifest_df = EmptyDF
    /\ schema_df = EmptyDF
    /\ operations_df = EmptyDF
    /\ intervals_df = EmptyDF
    /\ perm_df = EmptyDF
    /\ perm_intervals_df = EmptyDF
    /\ raised = NoException
    /\ called = {}
    /\ shown = <<>>
    /\ messages = {}

UnchangedTables ==
    UNCHANGED <<snapshots_df, manifest_df, schema_df, operations_df, intervals_df,
                perm_df, perm_intervals_df, called>>

UnchangedInputs ==
    UNCHANGED <<input_option, uploaded_file, analyze_button, metadata_path>>

(* A section's Streamlit output, in program order *)
MetricOut(label, value) == [kind |-> "metric", label |-> label, value |-> value]
MessageOut(text) == [kind |-> "message", label |-> text, value |-> NA]

ShownAfter(outs, k) ==
    LET done == { i \in 1..k : outs[i].kind = "metric" }
    IN  [l \in { outs[i].label : i \in done } |->
            outs[CHOOSE i \in done : outs[i].label = l].value] @@ shown

MessagesAfter(outs, k) ==
    messages \cup { outs[i].label : i \in { j \in 1..k : outs[j].kind = "message" } }

(* The calls of outs are made in order.  Each is a point where Streamlit may *)
(* raise its rerun/stop request instead of showing the element: the first k  *)
(* are shown, and unless that is all of them the run is left at the next one *)
Emit(outs, next) ==
    \E k \in 1..Len(outs) :
        /\ shown' = ShownAfter(outs, k)
        /\ messages' = MessagesAfter(outs, k)
        /\ pc' = IF k = Len(outs) THEN next ELSE "interrupted"

(* Lines 46-57 and 66: "Upload Metadata File" is selected.  With a file in  *)
(* the uploader its bytes go to a NamedTemporaryFile(delete=False), which   *)
(* outlives the with block.  The run can be left at the st.* call of line   *)
(* 51 (nothing bound yet) or of line 57 (file written, message not shown).  *)
SidebarUpload ==
    /\ pc = "sidebar"
    /\ UNCHANGED orphans
    /\ input_option' = "Upload Metadata File"
    /\ \E up \in BOOLEAN, button \in BOOLEAN,
          leftAt \in {"file_uploader", "success", "nowhere"} :
         /\ uploaded_file' = up
         /\ leftAt = "success" => up
         /\ analyze_button' = IF leftAt = "nowhere" THEN button ELSE analyze_button
         /\ pc' = IF leftAt = "nowhere" THEN "main" ELSE "interrupted"
         /\ IF leftAt = "file_uploader"
            THEN UNCHANGED <<temp_exists, bound, metadata_path, messages>>
            ELSE IF up
            THEN /\ temp_exists' = TRUE
                 /\ bound' = bound \cup {"uploaded_file", "temp_file"}
                 /\ metadata_path' = "tmp.json"
                 /\ messages' = IF leftAt = "success" THEN messages
                                ELSE messages \cup {"File uploaded successfully!"}
            ELSE /\ bound' = bound \cup {"uploaded_file"}
                 /\ metadata_path' = "None"
                 /\ UNCHANGED <<temp_exists, messages>>
    /\ UNCHANGED <<raised, shown>>
    /\ UnchangedTables

(* Lines 58-63 and 66: a path typed into the text input (possibly emptied); *)
(* the run can be left at the st.sidebar.text_input call                    *)
SidebarPath ==
    /\ pc = "sidebar"
    /\ UNCHANGED orphans
    /\ input_option' \in {"S3 Path", "Local Path"}
    /\ \/ /\ metadata_path' \in {"", "data/iceberg/lineitem_iceberg"}
          /\ analyze_button' \in BOOLEAN
          /\ pc' = "main"
       \/ /\ UNCHANGED <<metadata_path, analyze_button>>
          /\ pc' = "interrupted"
    /\ UNCHANGED <<uploaded_file, bound, temp_exists, raised, shown, messages>>
    /\ UnchangedTables

(* Line 129 and the else of lines 295-296 *)
MainBranch ==
    /\ pc = "main"
    /\ UNCHANGED orphans
    /\ IF Truthy(metadata_path) /\ analyze_button
       THEN pc' = "fetch_snapshots" /\ UNCHANGED messages
       ELSE /\ pc' = "cleanup"
            /\ messages' = messages \cup {"Please provide an Iceberg table path"}
    /\ UNCHANGED <<bound, temp_exists, raised, shown>>
    /\ UnchangedInputs
    /\ UnchangedTables

(* What iceberg_snapshots(...).fetchdf() returns: snapshot_id numbered in *)
(* commit order, timestamp_ms a TIMESTAMP column (possibly missing)       *)
RunSnapshotColumns == {"snapshot_id", "sequence_number", "timestamp_ms"}

RunSnapshotRows ==
    UNION { { [i \in 1..n |-> [snapshot_id |-> i, sequence_number |-> i,
                               timestamp_ms |-> t[i]]] : t \in [1..n -> Times] }
            : n \in 0..MaxRunSnapshots }

RunSnapshotTables ==
    { Table(c, r) : c \in {RunSnapshotColumns, RunSnapshotColumns \ {"timestamp_ms"}},
                    r \in RunSnapshotRows }

(* What iceberg_metadata(...).fetchdf() returns; status may be missing *)
RunManifestTables ==
    { Table(c, r) : c \in {ManifestColumns, ManifestColumns \ {"status"}},
                    r \in ManifestRows(MaxRunManifests) }

RunSchemaTables == { Table({"name"}, <<[name |-> "l_orderkey"]>>) }

(* snapshots_df['timestamp'] = pd.to_datetime(snapshots_df['timestamp_ms']): *)
(* the values are datetimes already and are kept                             *)
WithTimestamp(df) ==
    [cols |-> df.cols \cup {"timestamp"},
     rows |-> [i \in 1..Len(df.rows) |->
                 [c \in df.cols \cup {"timestamp"} |->
                     IF c = "timestamp" THEN df.rows[i].timestamp_ms ELSE df.rows[i][c]]]]

(* Lines 132-142 *)
FetchSnapshots ==
    /\ pc = "fetch_snapshots"
    /\ UNCHANGED orphans
    /\ \/ \E df \in RunSnapshotTables :
            /\ snapshots_df' = IF ~Empty(df) /\ "timestamp_ms" \in df.cols
                               THEN WithTimestamp(df) ELSE df
            /\ UNCHANGED messages
       \/ /\ snapshots_df' = EmptyDF
          /\ messages' = messages \cup {"Error fetching snapshots"}
    /\ bound' = bound \cup {"snapshots_df"}
    /\ pc' = "fetch_manifests"
    /\ UNCHANGED <<temp_exists, manifest_df, schema_df, operations_df, intervals_df,
                   perm_df, perm_intervals_df, called, raised, shown>>
    /\ UnchangedInputs

(* Lines 145-151 *)
FetchManifests ==
    /\ pc = "fetch_manifests"
    /\ UNCHANGED orphans
    /\ \/ \E df \in RunManifestTables :
            manifest_df' = df /\ UNCHANGED messages
       \/ /\ manifest_df' = EmptyDF
          /\ messages' = messages \cup {"Error fetching metadata"}
    /\ bound' = bound \cup {"manifest_df"}
    /\ pc' = "fetch_schema"
    /\ UNCHANGED <<temp_exists, snapshots_df, schema_df, operations_df, intervals_df,
                   perm_df, perm_intervals_df, called, raised, shown>>
    /\ UnchangedInputs

(* Lines 154-159 *)
FetchSchema ==
    /\ pc = "fetch_schema"
    /\ UNCHANGED orphans
    /\ schema_df' \in RunSchemaTables \cup {EmptyDF}
    /\ bound' = bound \cup {"schema_df"}
    /\ pc' = "insights"
    /\ UNCHANGED <<temp_exists, snapshots_df, manifest_df, operations_df, intervals_df,
                   perm_df, perm_intervals_df, called, raised, shown, messages>>
    /\ UnchangedInputs

(* Lines 162-164; an exception leaves for the outer handler of line 292 *)
CalculateInsights ==
    /\ pc = "insights"
    /\ UNCHANGED orphans
    /\ IF ~Empty(snapshots_df) /\ ~Empty(manifest_df)
       THEN LET r1 == extract_operation_metrics(snapshots_df, manifest_df)
            IN  IF IsRaise(r1)
                THEN /\ raised' = r1
                     /\ pc' = "except"
                     /\ UNCHANGED <<operations_df, intervals_df, bound>>
                ELSE /\ operations_df' = r1.df
                     /\ \E r2 \in calculate_snapshot_intervals(snapshots_df) :
                          IF IsRaise(r2)
                          THEN /\ raised' = r2
                               /\ pc' = "except"
                               /\ bound' = bound \cup {"operations_df"}
                               /\ UNCHANGED intervals_df
                          ELSE /\ intervals_df' = r2.df
                               /\ bound' = bound \cup {"operations_df", "intervals_df"}
                               /\ pc' = "key_metrics"
                               /\ UNCHANGED raised
       ELSE /\ pc' = "key_metrics"
            /\ UNCHANGED <<operations_df, intervals_df, bound, raised>>
    /\ UNCHANGED <<temp_exists, snapshots_df, manifest_df, schema_df, perm_df,
                   perm_intervals_df, called, shown, messages>>
    /\ UnchangedInputs

TotalSnapshots == IF ~Empty(snapshots_df) THEN Len(snapshots_df.rows) ELSE 0

CountWhere(df, col) ==
    Cardinality({ i \in DOMAIN df.rows : df.rows[i][col] > 0 })

(* Lines 167-192: reading the unbound name operations_df is a NameError *)
KeyMetrics ==
    /\ pc = "key_metrics"
    /\ UNCHANGED orphans
    /\ IF "operations_df" \notin bound
       THEN /\ Emit(<<MetricOut("Total Snapshots", Num(TotalSnapshots))>>, "except")
            /\ raised' = Raised("NameError", "operations_df")
       ELSE /\ IF ~Empty(operations_df)
               THEN Emit(<<MetricOut("Total Snapshots", Num(TotalSnapshots)),
                           MetricOut("Write Operations",
                               Num(CountWhere(operations_df, "added_records"))),
                           MetricOut("Delete Operations",
                               Num(CountWhere(operations_df, "deleted_records"))),
                           MetricOut("Avg Manifests/Snapshot",
                               Num(Format1(SumSeq(Column(operations_df.rows,
                                                         "manifest_count")),
                                           Len(operations_df.rows))))>>,
                         "timeline")
               ELSE Emit(<<MetricOut("Total Snapshots", Num(TotalSnapshots)),
                           MetricOut("Write Operations", NA),
                           MetricOut("Delete Operations", NA),
                           MetricOut("Avg Manifests/Snapshot", NA)>>,
                         "timeline")
            /\ UNCHANGED raised
    /\ UNCHANGED <<bound, temp_exists>>
    /\ UnchangedInputs
    /\ UnchangedTables

(* Lines 195-278.  Every timestamp of Times is a multiple of 1800 s, so each *)
(* interval_hours is a multiple of 1/2, an exact float, and so is their sum: *)
(* the mean is one float division, of the summed seconds by 3600 * count.    *)
Timeline ==
    /\ pc = "timeline"
    /\ UNCHANGED orphans
    /\ IF ~Empty(snapshots_df) /\ "timestamp" \in snapshots_df.cols
          /\ Len(snapshots_df.rows) > 1
       THEN IF "intervals_df" \notin bound
            THEN /\ Emit(<<MessageOut("Snapshot Timeline")>>, "except")
                 /\ raised' = Raised("NameError", "intervals_df")
            ELSE /\ IF ~Empty(intervals_df)
                    THEN LET seconds == Column(intervals_df.rows, "interval_seconds")
                         IN  Emit(<<MessageOut("Snapshot Timeline"),
                                    MetricOut("Avg Interval",
                                        Num(Format1(SumSeq(seconds),
                                                    3600 * Len(seconds)))),
                                    MetricOut("Min Interval",
                                        Num(Format1(MinSeq(seconds), 3600))),
                                    MetricOut("Max Interval",
                                        Num(Format1(MaxSeq(seconds), 3600))),
                                    MessageOut("Distribution of Snapshot Intervals")>>,
                                  "recent")
                    ELSE Emit(<<MessageOut("Snapshot Timeline")>>, "recent")
                 /\ UNCHANGED raised
       ELSE /\ Emit(<<MessageOut("Insufficient data to show snapshots timeline")>>,
                    "recent")
            /\ UNCHANGED raised
    /\ UNCHANGED <<bound, temp_exists>>
    /\ UnchangedInputs
    /\ UnchangedTables

(* Lines 281-290 *)
RecentSnapshots ==
    /\ pc = "recent"
    /\ UNCHANGED orphans
    /\ Emit(<<MessageOut(IF ~Empty(snapshots_df) THEN "Recent Snapshots"
                         ELSE "No snapshot data available.")>>, "cleanup")
    /\ UNCHANGED <<bound, temp_exists, raised>>
    /\ UnchangedInputs
    /\ UnchangedTables

(* Lines 292-294 *)
OuterExcept ==
    /\ pc = "except"
    /\ UNCHANGED orphans
    /\ Emit(<<MessageOut("Error analyzing Iceberg table"),
              MessageOut("Please check if the metadata path is correct and accessible.")>>,
            "cleanup")
    /\ UNCHANGED <<bound, temp_exists, raised>>
    /\ UnchangedInputs
    /\ UnchangedTables

(* Lines 298-303: os.unlink may fail (the file is locked or protected); the *)
(* bare except swallows the failure and the file stays on disk             *)
Cleanup ==
    /\ pc = "cleanup"
    /\ IF input_option = "Upload Metadata File" /\ "temp_file" \in bound
       THEN \E unlinked \in BOOLEAN : temp_exists' = (temp_exists /\ ~unlinked)
       ELSE UNCHANGED temp_exists
    /\ pc' = "done"
    /\ UNCHANGED <<bound, raised, shown, messages, orphans>>
    /\ UnchangedInputs
    /\ UnchangedTables

(* Positions where the next statement that changes the state is a Streamlit *)
(* call: lines 11-46 (sidebar), 66-70 and 296 (main), 141 and 150 (the      *)
(* st.error of a failed fetch, reached before the empty table is assigned), *)
(* 167-171, 195-241 and 278, 281-290, 293                                   *)
StreamlitCallSites ==
    {"sidebar", "main", "fetch_snapshots", "fetch_manifests", "key_metrics",
     "timeline", "recent", "except"}

(* A widget interaction during the run: the next st.* call raises           *)
(* Streamlit's rerun/stop request, a BaseException that the except of line  *)
(* 292 does not catch; the script is left there and lines 298-303 never run *)
Interrupt ==
    /\ pc \in StreamlitCallSites
    /\ pc' = "interrupted"
    /\ UNCHANGED <<bound, temp_exists, orphans, raised, shown, messages>>
    /\ UnchangedInputs
    /\ UnchangedTables

RunOver == pc \in {"done", "interrupted"}

(* The next interaction reruns the script in a fresh namespace; a temporary *)
(* file still on disk stays there                                           *)
Rerun ==
    /\ RunOver
    /\ temp_exists => orphans < MaxOrphans
    /\ orphans' = IF temp_exists THEN orphans + 1 ELSE orphans
    /\ temp_exists' = FALSE
    /\ pc' = "sidebar"
    /\ input_option' = "Upload Metadata File"
    /\ uploaded_file' = FALSE
    /\ analyze_button' = FALSE
    /\ metadata_path' = "None"
    /\ bound' = {}
    /\ snapshots_df' = EmptyDF
    /\ manifest_df' = EmptyDF
    /\ schema_df' = EmptyDF
    /\ operations_df' = EmptyDF
    /\ intervals_df' = EmptyDF
    /\ raised' = NoException
    /\ shown' = <<>>
    /\ messages' = {}
    /\ UNCHANGED <<perm_df, perm_intervals_df, called>>

Init == ScriptInit

Next ==
    \/ SidebarUpload
    \/ SidebarPath
    \/ MainBranch
    \/ FetchSnapshots
    \/ FetchManifests
    \/ FetchSchema
    \/ CalculateInsights
    \/ KeyMetrics
    \/ Timeline
    \/ RecentSnapshots
    \/ OuterExcept
    \/ Cleanup
    \/ Interrupt
    \/ Rerun

Spec == Init /\ [][Next]_vars

----------------------------------------------------------------------------
(* Properties of calculate_snapshot_intervals, under SpecIntervals *)

NumSnapshots == Len(snapshots_df.rows)

RowsOf(df) == { df.rows[i] : i \in DOMAIN df.rows }

(* C1: the call returns exactly N-1 rows for N >= 2 snapshots with a        *)
(* timestamp column, and 0 rows when N < 2 or the timestamp column is absent *)
C1_IntervalCount ==
    "intervals" \in called =>
        /\ raised = NoException
        /\ ("timestamp" \in snapshots_df.cols /\ NumSnapshots >= 2)
              => Len(intervals_df.rows) = NumSnapshots - 1
        /\ ("timestamp" \notin snapshots_df.cols \/ NumSnapshots < 2)
              => Len(intervals_df.rows) = 0

C1_Witness ==
    /\ "intervals" \in called
    /\ "timestamp" \in snapshots_df.cols
    /\ NumSnapshots = 3
    /\ Len(intervals_df.rows) = 2

(* C2 as stated: the same snapshots in any order give the same output rows, *)
(* identifiers included, also when snapshots share a timestamp              *)
C2_PermutationSameOutput ==
    {"intervals", "permuted"} \subseteq called => perm_intervals_df = intervals_df

DistinctTimestamps ==
    "timestamp" \in snapshots_df.cols =>
        \A i, j \in DOMAIN snapshots_df.rows :
            i # j => snapshots_df.rows[i].timestamp # snapshots_df.rows[j].timestamp

Times3(df) ==
    [i \in DOMAIN df.rows |->
        <<df.rows[i].previous_time, df.rows[i].current_time, df.rows[i].interval_seconds>>]

(* C2 amended: any order of the same snapshots gives the same sequence of  *)
(* previous_time, current_time and durations; the identifiers are the same *)
(* too when no two snapshots share a timestamp                             *)
C2_PermutationSameTimes ==
    {"intervals", "permuted"} \subseteq called =>
        /\ Times3(perm_intervals_df) = Times3(intervals_df)
        /\ DistinctTimestamps => perm_intervals_df = intervals_df

C2_Witness ==
    /\ {"intervals", "permuted"} \subseteq called
    /\ "timestamp" \in snapshots_df.cols
    /\ NumSnapshots = 3
    /\ DistinctTimestamps
    /\ perm_df.rows # snapshots_df.rows
    /\ snapshots_df.rows[1].timestamp > snapshots_df.rows[2].timestamp
    /\ Len(intervals_df.rows) = 2
    /\ perm_intervals_df = intervals_df

(* C3: every row has interval_seconds >= 0 and previous_time <= current_time, *)
(* whatever the input order; an interval is zero only for equal timestamps    *)
C3_NonNegativeIntervals ==
    "intervals" \in called =>
        \A row \in RowsOf(intervals_df) :
            /\ row.interval_seconds >= 0
            /\ row.previous_time <= row.current_time
            /\ row.interval_seconds = 0 => row.previous_time = row.current_time

C3_Witness ==
    /\ "intervals" \in called
    /\ NumSnapshots = 3
    /\ "timestamp" \in snapshots_df.cols
    /\ snapshots_df.rows[1].timestamp > snapshots_df.rows[2].timestamp
    /\ snapshots_df.rows[1].timestamp = snapshots_df.rows[3].timestamp
    /\ Len(intervals_df.rows) = 2
    /\ intervals_df.rows[1].interval_seconds > 0
    /\ intervals_df.rows[2].interval_seconds = 0

----------------------------------------------------------------------------
(* Properties of extract_operation_metrics, under SpecExtract *)

(* Positions of the manifest entries joined to a sequence number *)
Joined(seq_num) ==
    { j \in DOMAIN manifest_df.rows :
        manifest_df.rows[j].manifest_sequence_number = seq_num }

JoinedWithStatus(seq_num, status) ==
    { j \in Joined(seq_num) : manifest_df.rows[j].status = status }

RECURSIVE RecordTotal(_)
RecordTotal(positions) ==
    IF positions = {} THEN 0
    ELSE LET j == CHOOSE x \in positions : TRUE
         IN  manifest_df.rows[j].record_count + RecordTotal(positions \ {j})

(* C4: manifest_count is the number of manifest entries whose               *)
(* manifest_sequence_number is the snapshot's sequence_number, of any status *)
C4_ManifestCount ==
    "extract" \in called =>
        \A row \in RowsOf(operations_df) :
            row.manifest_count = Cardinality(Joined(row.sequence_number))

C4_Witness ==
    /\ "extract" \in called
    /\ \E row \in RowsOf(operations_df) :
         /\ row.manifest_count = 2
         /\ JoinedWithStatus(row.sequence_number, "EXISTING") # {}
         /\ RecordTotal(Joined(row.sequence_number)) = 4

(* C5: added_records and deleted_records are the sums of record_count over *)
(* the joined entries of status ADDED and DELETED, other statuses count in *)
(* neither, net_change is their difference, and both sums are >= 0          *)
C5_StatusSums ==
    "extract" \in called =>
        \A row \in RowsOf(operations_df) :
            /\ row.added_records =
                   RecordTotal(JoinedWithStatus(row.sequence_number, "ADDED"))
            /\ row.deleted_records =
                   RecordTotal(JoinedWithStatus(row.sequence_number, "DELETED"))
            /\ row.net_change = row.added_records - row.deleted_records
            /\ row.added_records >= 0
            /\ row.deleted_records >= 0

C5_Witness ==
    /\ "extract" \in called
    /\ \E row \in RowsOf(operations_df) :
         /\ row.added_records = 0
         /\ row.deleted_records = 2
         /\ row.net_change = -2
         /\ \E j \in JoinedWithStatus(row.sequence_number, "EXISTING") :
                manifest_df.rows[j].record_count = 2

(* C6: with both inputs non-empty and a status column there is exactly one *)
(* row per snapshot, in input order, with its snapshot_id and              *)
(* sequence_number; otherwise there is no row                              *)
C6_OneRowPerSnapshot ==
    "extract" \in called =>
        /\ raised = NoException
        /\ IF ~Empty(snapshots_df) /\ ~Empty(manifest_df) /\ "status" \in manifest_df.cols
           THEN /\ Len(operations_df.rows) = Len(snapshots_df.rows)
                /\ \A i \in DOMAIN snapshots_df.rows :
                     /\ operations_df.rows[i].snapshot_id = snapshots_df.rows[i].snapshot_id
                     /\ operations_df.rows[i].sequence_number =
                            snapshots_df.rows[i].sequence_number
           ELSE Len(operations_df.rows) = 0

C6_Witness ==
    /\ "extract" \in called
    /\ Len(snapshots_df.rows) = 2
    /\ Len(operations_df.rows) = 2
    /\ snapshots_df.rows[1].snapshot_id = 2
    /\ operations_df.rows[1].manifest_count = 0
    /\ operations_df.rows[2].manifest_count = 1
    /\ \E j \in DOMAIN manifest_df.rows :
         \A i \in DOMAIN snapshots_df.rows :
            manifest_df.rows[j].manifest_sequence_number #
                snapshots_df.rows[i].sequence_number

----------------------------------------------------------------------------
(* Missing columns, under SpecSchema *)

(* C7: with an expected column absent from a non-empty input, neither    *)
(* function lets an exception out                                        *)
C7_NoExceptionOnMissingColumn ==
    called # {} => raised = NoException

----------------------------------------------------------------------------
(* Properties of a script run, under Spec *)

AnalysisRequested == Truthy(metadata_path) /\ analyze_button

(* C8: whatever fetches fail or come back empty, the run holds an        *)
(* operation-metrics result and an interval result when the Key Metrics  *)
(* section reads them, and does not end in the outer handler             *)
C8_FetchFailureLeavesUsableResults ==
    /\ pc = "key_metrics" => {"operations_df", "intervals_df"} \subseteq bound
    /\ (Empty(snapshots_df) \/ Empty(manifest_df))
          => "Error analyzing Iceberg table" \notin messages

OperationLabels == {"Write Operations", "Delete Operations", "Avg Manifests/Snapshot"}
IntervalLabels == {"Avg Interval", "Min Interval", "Max Interval"}

ReportedUnavailable(labels) ==
    \A l \in labels : l \in DOMAIN shown /\ shown[l] = NA

(* C9: at the end of an analysis run every reduction over an empty sequence *)
(* has been reported as unavailable                                         *)
C9_EmptyReductionsUnavailable ==
    (pc = "done" /\ AnalysisRequested) =>
        /\ ("operations_df" \notin bound \/ Empty(operations_df))
              => ReportedUnavailable(OperationLabels)
        /\ ("intervals_df" \notin bound \/ Empty(intervals_df))
              => \/ ReportedUnavailable(IntervalLabels)
                 \/ "Insufficient data to show snapshots timeline" \in messages

(* C10: a temporary file written for an upload exists while the fetches read *)
(* it and is deleted when the run is over, with or without analysis, with or *)
(* without an error                                                          *)
C10_TempFileDeleted ==
    "temp_file" \in bound =>
        /\ pc \in {"fetch_snapshots", "fetch_manifests", "fetch_schema"} => temp_exists
        /\ RunOver => ~temp_exists

====
